---------------------------- MODULE Spec2Model ----------------------------
(***************************************************************************)
(* Microgrid operation simulation (src/operation.py): the rule-based       *)
(* dispatch decision `dispatch` and the simulation loop `operation` with   *)
(* its OperationStats accumulator.                                         *)
(*                                                                         *)
(* Numbers.  The program computes with floats; the model computes with     *)
(* exact rationals <<n, d>> (d > 0, lowest terms), so that sums, products  *)
(* and quotients are the real-number results of the source expressions.    *)
(* A quotient by zero is not a rational: numpy scalars give inf/nan        *)
(* (<<1,0>>, <<-1,0>>, <<0,0>>), Python floats raise ZeroDivisionError.    *)
(***************************************************************************)
EXTENDS Integers, Sequences, FiniteSets, TLC

VARIABLES
    mg,             \* the Microgrid project passed to operation (never written)
    recorder,       \* TRUE iff a Recorder is passed to operation
    pc,             \* position in operation / in a stand-alone dispatch call
    exc,            \* name of the exception that ended operation, "" if none
    renew_potential,\* operation: sum of the non-dispatchable productions
    Pnl_request,    \* operation: desired net load series
    Esto,           \* operation: storage energy state
    shed_duration,  \* operation: duration of the current load shedding event
    op_st,          \* operation: the OperationStats being accumulated
    np_fields,      \* op_st fields that hold a numpy scalar (not a Python float)
    k,              \* operation: number of loop iterations completed
    rec_log,        \* calls received by the recorder, in order
    call,           \* <<arguments>> of the latest dispatch call, <<>> if none
    ret,            \* <<result>> of the latest dispatch call, <<>> if none
    history,        \* states this run of operation has gone through, in order
    reference       \* history of an earlier run on the same mg, <<>> if none

vars == <<mg, recorder, pc, exc, renew_potential, Pnl_request, Esto,
          shed_duration, op_st, np_fields, k, rec_log, call, ret,
          history, reference>>

---------------------------------------------------------------------------
(* Exact rational arithmetic                                               *)

Abs(n) == IF n < 0 THEN -n ELSE n

RECURSIVE GCD(_, _)
GCD(a, b) == IF b = 0 THEN a ELSE GCD(b, a % b)

\* n/d in lowest terms, d > 0
Rat(n, d) == LET g == GCD(Abs(n), d) IN <<n \div g, d \div g>>

Int2Rat(n) == <<n, 1>>
Zero == <<0, 1>>
One == <<1, 1>>

IsFinite(a) == a[2] > 0
RAdd(a, b) == Rat(a[1] * b[2] + b[1] * a[2], a[2] * b[2])
RNeg(a) == <<-a[1], a[2]>>
RSub(a, b) == RAdd(a, RNeg(b))
RMul(a, b) == Rat(a[1] * b[1], a[2] * b[2])
RLe(a, b) == a[1] * b[2] <= b[1] * a[2]
RLt(a, b) == a[1] * b[2] < b[1] * a[2]
RGe(a, b) == RLe(b, a)
RGt(a, b) == RLt(b, a)
RAbs(a) == <<Abs(a[1]), a[2]>>
\* Python's max(a, b) and min(a, b): the first argument unless the second is
\* strictly larger (smaller)
RMax(a, b) == IF RGt(b, a) THEN b ELSE a
RMin(a, b) == IF RLt(b, a) THEN b ELSE a
Sign(n) == IF n > 0 THEN 1 ELSE IF n < 0 THEN -1 ELSE 0
\* a / b for b # 0
RQuot(a, b) == IF b[1] > 0 THEN Rat(a[1] * b[2], a[2] * b[1])
               ELSE Rat(-(a[1] * b[2]), a[2] * (-b[1]))

\* Outcome of the Python expression a / b.  With a numpy scalar operand a
\* zero divisor gives inf, -inf or nan (and a warning); with two Python floats
\* it raises ZeroDivisionError, written Raised.
Raised == <<0, -1>>
TrueDiv(a, b, numpy) ==
    IF b[1] # 0 THEN RQuot(a, b)
    ELSE IF numpy THEN <<Sign(a[1]), 0>>
    ELSE Raised

---------------------------------------------------------------------------
(* dispatch                                                                *)

\* dispatch with the generator served its whole request, the storage output
\* not subtracted from it (lines 104-108 with Pnl_req for Pnl_req - Psto)
dispatch_gen_ignores_storage(Pnl_req, Psto_cmax, Psto_dmax, Pgen_max) ==
    IF RGe(Pnl_req, Zero)
    THEN IF RGe(Pnl_req, Psto_dmax)
         THEN IF RGe(Pnl_req, Pgen_max)
              THEN [Pgen |-> Pgen_max, Psto |-> Psto_dmax, Pspill |-> Zero,
                    Pshed |-> RSub(RSub(Pnl_req, Psto_dmax), Pgen_max)]
              ELSE [Pgen |-> Pnl_req, Psto |-> Psto_dmax,
                    Pspill |-> Zero, Pshed |-> Zero]
         ELSE [Pgen |-> Zero, Psto |-> Pnl_req, Pspill |-> Zero, Pshed |-> Zero]
    ELSE IF RGe(Pnl_req, Psto_cmax)
         THEN [Pgen |-> Zero, Psto |-> Pnl_req, Pspill |-> Zero, Pshed |-> Zero]
         ELSE [Pgen |-> Zero, Psto |-> Psto_cmax,
               Pspill |-> RSub(Psto_cmax, Pnl_req), Pshed |-> Zero]

\* dispatch with the generator dispatched before the storage (the tests of
\* lines 102 and 104 in the other order)
dispatch_generator_first(Pnl_req, Psto_cmax, Psto_dmax, Pgen_max) ==
    IF RGe(Pnl_req, Zero)
    THEN IF RGe(Pnl_req, Pgen_max)
         THEN IF RGe(RSub(Pnl_req, Pgen_max), Psto_dmax)
              THEN [Pgen |-> Pgen_max, Psto |-> Psto_dmax, Pspill |-> Zero,
                    Pshed |-> RSub(RSub(Pnl_req, Psto_dmax), Pgen_max)]
              ELSE [Pgen |-> Pgen_max, Psto |-> RSub(Pnl_req, Pgen_max),
                    Pspill |-> Zero, Pshed |-> Zero]
         ELSE [Pgen |-> Pnl_req, Psto |-> Zero, Pspill |-> Zero, Pshed |-> Zero]
    ELSE IF RGe(Pnl_req, Psto_cmax)
         THEN [Pgen |-> Zero, Psto |-> Pnl_req, Pspill |-> Zero, Pshed |-> Zero]
         ELSE [Pgen |-> Zero, Psto |-> Psto_cmax,
               Pspill |-> RSub(Psto_cmax, Pnl_req), Pshed |-> Zero]

\* dispatch with the spilled power of line 121 taken with the other sign
dispatch_spill_sign(Pnl_req, Psto_cmax, Psto_dmax, Pgen_max) ==
    IF RGe(Pnl_req, Zero)
    THEN IF RGe(Pnl_req, Psto_dmax)
         THEN IF RGe(RSub(Pnl_req, Psto_dmax), Pgen_max)
              THEN [Pgen |-> Pgen_max, Psto |-> Psto_dmax, Pspill |-> Zero,
                    Pshed |-> RSub(RSub(Pnl_req, Psto_dmax), Pgen_max)]
              ELSE [Pgen |-> RSub(Pnl_req, Psto_dmax), Psto |-> Psto_dmax,
                    Pspill |-> Zero, Pshed |-> Zero]
         ELSE [Pgen |-> Zero, Psto |-> Pnl_req, Pspill |-> Zero, Pshed |-> Zero]
    ELSE IF RGe(Pnl_req, Psto_cmax)
         THEN [Pgen |-> Zero, Psto |-> Pnl_req, Pspill |-> Zero, Pshed |-> Zero]
         ELSE [Pgen |-> Zero, Psto |-> Psto_cmax,
               Pspill |-> RSub(Pnl_req, Psto_cmax), Pshed |-> Zero]

\* dispatch with the shed power of line 106 not reduced by the generator output
dispatch_shed_ignores_generator(Pnl_req, Psto_cmax, Psto_dmax, Pgen_max) ==
    IF RGe(Pnl_req, Zero)
    THEN IF RGe(Pnl_req, Psto_dmax)
         THEN IF RGe(RSub(Pnl_req, Psto_dmax), Pgen_max)
              THEN [Pgen |-> Pgen_max, Psto |-> Psto_dmax, Pspill |-> Zero,
                    Pshed |-> RSub(Pnl_req, Psto_dmax)]
              ELSE [Pgen |-> RSub(Pnl_req, Psto_dmax), Psto |-> Psto_dmax,
                    Pspill |-> Zero, Pshed |-> Zero]
         ELSE [Pgen |-> Zero, Psto |-> Pnl_req, Pspill |-> Zero, Pshed |-> Zero]
    ELSE IF RGe(Pnl_req, Psto_cmax)
         THEN [Pgen |-> Zero, Psto |-> Pnl_req, Pspill |-> Zero, Pshed |-> Zero]
         ELSE [Pgen |-> Zero, Psto |-> Psto_cmax,
               Pspill |-> RSub(Psto_cmax, Pnl_req), Pshed |-> Zero]

\* dispatch charging the whole excess, whatever Psto_cmax (lines 117-121
\* reduced to Psto = Pnl_req)
dispatch_charge_unbounded(Pnl_req, Psto_cmax, Psto_dmax, Pgen_max) ==
    IF RGe(Pnl_req, Zero)
    THEN IF RGe(Pnl_req, Psto_dmax)
         THEN IF RGe(RSub(Pnl_req, Psto_dmax), Pgen_max)
              THEN [Pgen |-> Pgen_max, Psto |-> Psto_dmax, Pspill |-> Zero,
                    Pshed |-> RSub(RSub(Pnl_req, Psto_dmax), Pgen_max)]
              ELSE [Pgen |-> RSub(Pnl_req, Psto_dmax), Psto |-> Psto_dmax,
                    Pspill |-> Zero, Pshed |-> Zero]
         ELSE [Pgen |-> Zero, Psto |-> Pnl_req, Pspill |-> Zero, Pshed |-> Zero]
    ELSE [Pgen |-> Zero, Psto |-> Pnl_req, Pspill |-> Zero, Pshed |-> Zero]

\* dispatch(Pnl_req, Psto_cmax, Psto_dmax, Pgen_max) -> (Pgen, Psto, Pspill, Pshed)
dispatch(Pnl_req, Psto_cmax, Psto_dmax, Pgen_max) ==
    IF RGe(Pnl_req, Zero)
    THEN IF RGe(Pnl_req, Psto_dmax)
         THEN IF RGe(RSub(Pnl_req, Psto_dmax), Pgen_max)
              THEN [Pgen |-> Pgen_max, Psto |-> Psto_dmax, Pspill |-> Zero,
                    Pshed |-> RSub(RSub(Pnl_req, Psto_dmax), Pgen_max)]
              ELSE [Pgen |-> RSub(Pnl_req, Psto_dmax), Psto |-> Psto_dmax,
                    Pspill |-> Zero, Pshed |-> Zero]
         ELSE [Pgen |-> Zero, Psto |-> Pnl_req, Pspill |-> Zero, Pshed |-> Zero]
    ELSE IF RGe(Pnl_req, Psto_cmax)
         THEN [Pgen |-> Zero, Psto |-> Pnl_req, Pspill |-> Zero, Pshed |-> Zero]
         ELSE [Pgen |-> Zero, Psto |-> Psto_cmax,
               Pspill |-> RSub(Psto_cmax, Pnl_req), Pshed |-> Zero]

\* Arguments of a dispatch call, as recorded in `call`
Args(Pnl_req, Psto_cmax, Psto_dmax, Pgen_max) ==
    [Pnl_req |-> Pnl_req, Psto_cmax |-> Psto_cmax,
     Psto_dmax |-> Psto_dmax, Pgen_max |-> Pgen_max]

---------------------------------------------------------------------------
(* OperationStats                                                          *)

\* OperationStats(): every field defaults to 0.0
OperationStats ==
    [served_energy |-> Zero, shed_energy |-> Zero, shed_max |-> Zero,
     shed_hours |-> Zero, shed_duration_max |-> Zero, shed_rate |-> Zero,
     gen_hours |-> Zero, gen_fuel |-> Zero,
     storage_cycles |-> Zero, storage_throughput |-> Zero,
     spilled_energy |-> Zero, spilled_max |-> Zero, spilled_rate |-> Zero,
     renew_potential_energy |-> Zero, renew_energy |-> Zero,
     renew_rate |-> Zero]

---------------------------------------------------------------------------
(* operation: values computed before the loop                              *)

RECURSIVE SeqSum(_)
\* np.sum(series)
SeqSum(s) == IF s = <<>> THEN Zero ELSE RAdd(s[1], SeqSum(Tail(s)))

\* numpy arithmetic on two arrays: the shapes (n,) and (m,) are compatible
\* when n = m or one of them is 1, and the array of length 1 is then repeated;
\* otherwise the operation raises ValueError
NpCompatible(a, b) == Len(a) = Len(b) \/ Len(a) = 1 \/ Len(b) = 1
NpLen(a, b) == IF Len(a) = 1 THEN Len(b) ELSE Len(a)
NpAt(a, i) == IF Len(a) = 1 THEN a[1] ELSE a[i]
NpAdd(a, b) == [i \in 1..NpLen(a, b) |-> RAdd(NpAt(a, i), NpAt(b, i))]
NpSub(a, b) == [i \in 1..NpLen(a, b) |-> RSub(NpAt(a, i), NpAt(b, i))]

RECURSIVE SumProductions(_)
\* sum(renew_productions): ((0 + p1) + p2) + ..., the scalar 0 being <<Zero>>
SumProductions(prods) ==
    IF prods = <<>> THEN <<Zero>>
    ELSE NpAdd(SumProductions(SubSeq(prods, 1, Len(prods) - 1)),
               prods[Len(prods)])

RECURSIVE SumRaises(_)
\* sum(renew_productions) raises ValueError: two productions do not broadcast
SumRaises(prods) ==
    /\ prods # <<>>
    /\ \/ SumRaises(SubSeq(prods, 1, Len(prods) - 1))
       \/ ~ NpCompatible(SumProductions(SubSeq(prods, 1, Len(prods) - 1)),
                         prods[Len(prods)])

\* K = len(mg.load)
K == Len(mg.load)
\* dt = mg.project.timestep
dt == mg.project.timestep
Psto_pmax == RMul(mg.storage.discharge_rate_max, mg.storage.energy_rated)
Psto_pmin == RNeg(RMul(mg.storage.charge_rate_max, mg.storage.energy_rated))
\* Esto = mg.storage.SoC_ini * mg.storage.energy_rated
Esto_ini == RMul(mg.storage.SoC_ini, mg.storage.energy_rated)

---------------------------------------------------------------------------
(* operation: one loop iteration                                           *)

\* Psto_emin without the leading minus sign of line 162
Psto_emin_unsigned(E) ==
    RQuot(RSub(mg.storage.energy_max, E),
          RMul(RSub(One, mg.storage.loss), dt))

\* Psto_emin = - (energy_max - Esto) / ((1 - loss) * dt)
Psto_emin(E) ==
    RNeg(RQuot(RSub(mg.storage.energy_max, E),
               RMul(RSub(One, mg.storage.loss), dt)))
\* Psto_emax = (Esto - energy_min) / ((1 + loss) * dt)
Psto_emax(E) ==
    RQuot(RSub(E, mg.storage.energy_min),
          RMul(RAdd(One, mg.storage.loss), dt))
Psto_dmax(E) == RMin(Psto_emax(E), Psto_pmax)
Psto_cmax(E) == RMax(Psto_emin(E), Psto_pmin)

\* load statistics updated only under `if recorder:` (lines 178-183 indented
\* into the block of line 172)
LoadStats_if_recorder(st, Pshed) ==
    IF recorder
    THEN [st EXCEPT !.shed_energy = RAdd(@, RMul(Pshed, dt)),
                    !.shed_max = RMax(@, Pshed),
                    !.shed_hours = IF RGt(Pshed, Zero) THEN RAdd(@, dt) ELSE @,
                    !.shed_duration_max =
                        IF RGt(Pshed, Zero)
                        THEN RMax(@, RAdd(shed_duration, dt)) ELSE @]
    ELSE st

\* Load statistics of one step
LoadStats(st, Pshed) ==
    LET a == [st EXCEPT !.shed_energy = RAdd(@, RMul(Pshed, dt)),
                        !.shed_max = RMax(@, Pshed)]
    IN IF RGt(Pshed, Zero)
       THEN [a EXCEPT !.shed_hours = RAdd(@, dt),
                      !.shed_duration_max = RMax(@, RAdd(shed_duration, dt))]
       ELSE a

\* shed_duration never reset (lines 184-186 left out)
ShedDuration_no_reset(Pshed) ==
    IF RGt(Pshed, Zero) THEN RAdd(shed_duration, dt) ELSE shed_duration

\* shed_duration after one step
ShedDuration(Pshed) ==
    IF RGt(Pshed, Zero) THEN RAdd(shed_duration, dt) ELSE Zero

\* fuel_rate = fuel_intercept * mg.dieselgenerator.power_rated + fuel_slope * Pgen
fuel_rate(Pgen) ==
    RAdd(RMul(mg.dispatchable.fuel_intercept, mg.dieselgenerator[1].power_rated),
         RMul(mg.dispatchable.fuel_slope, Pgen))

\* Storage and non-dispatchable statistics of one step
StorageStats(st, Psto) ==
    [st EXCEPT !.storage_throughput = RAdd(@, RMul(RAbs(Psto), dt))]

\* spilled_energy assigned, not accumulated (= for += at line 199)
SpillStats_assigned(st, Pspill) ==
    [st EXCEPT !.spilled_energy = RMul(Pspill, dt),
               !.spilled_max = RMax(@, Pspill)]

SpillStats(st, Pspill) ==
    [st EXCEPT !.spilled_energy = RAdd(@, RMul(Pspill, dt)),
               !.spilled_max = RMax(@, Pspill)]

\* The results of dispatch that are numpy scalars: those computed from
\* Pnl_req, an element of the numpy array Pnl_request (the bounds and the
\* literals 0.0 are Python floats)
NumpyResults(Pnl_req, cmax, dmax, Pgen_max) ==
    IF RGe(Pnl_req, Zero)
    THEN IF RGe(Pnl_req, dmax)
         THEN IF RGe(RSub(Pnl_req, dmax), Pgen_max) THEN {"Pshed"} ELSE {"Pgen"}
         ELSE {"Psto"}
    ELSE IF RGe(Pnl_req, cmax) THEN {"Psto"} ELSE {"Pspill"}

\* The accumulators that a step turns into numpy scalars (a Python float plus
\* a numpy scalar is a numpy scalar)
NumpyFields(results) ==
    (IF "Pshed" \in results THEN {"shed_energy"} ELSE {})
    \cup (IF "Psto" \in results THEN {"storage_throughput"} ELSE {})
    \cup (IF "Pspill" \in results THEN {"spilled_energy"} ELSE {})

\* recorder.rec keeping the latest sample only
Rec_latest_only(values) ==
    IF recorder THEN <<rec_log[1], <<"rec", values>>>> ELSE rec_log

\* recorder.rec(**values), recorder.init(**lengths)
Rec(values) == IF recorder THEN Append(rec_log, <<"rec", values>>) ELSE rec_log
RecInit(lengths) == IF recorder THEN <<<<"init", lengths>>>> ELSE rec_log

---------------------------------------------------------------------------
(* Configurations                                                          *)
(*                                                                         *)
(* operation reads its Microgrid from the components module.  The model    *)
(* draws it from small sets: a load and one non-dispatchable production    *)
(* series of K values each (numpy arrays), a Python float timestep, and a  *)
(* storage that starts inside its allowed energy range, with 0 <= loss < 1 *)
(* and energy_max > 0.  operation reads mg.dispatchable and, at line 191,  *)
(* mg.dieselgenerator: the latter is either missing (AttributeError) or a  *)
(* generator with a rated power of its own.                                *)

\* Bounds of the operation model
MaxK == 3
\* Bounds of the stand-alone dispatch calls
MaxPnl == 20
MaxPsto == 5
MaxPgen == 10

LoadValues == {Zero, One}
ProdValues == {Zero, One}
TimestepValues == {One, Int2Rat(2)}

Series(S, n) == [1..n -> S]

Storages ==
    {s \in [energy_rated : {Int2Rat(4)},
            energy_min : {One},
            energy_max : {Int2Rat(3), Int2Rat(4)},
            SoC_ini : {Rat(1, 4), Rat(1, 2), Rat(3, 4)},
            charge_rate_max : {Rat(1, 4)},
            discharge_rate_max : {Rat(1, 2)},
            loss : {Zero, Rat(1, 3)}] :
        \* the storage starts inside its allowed energy range
        /\ RLe(s.energy_min, RMul(s.SoC_ini, s.energy_rated))
        /\ RLe(RMul(s.SoC_ini, s.energy_rated), s.energy_max)}

Dispatchables ==
    [power_rated : {Zero, Rat(1, 2)},
     fuel_intercept : {Rat(1, 2)},
     fuel_slope : {Rat(1, 4)}]

\* mg.dieselgenerator: <<>> when the Microgrid has no such attribute
DieselGenerators == {<<>>, <<[power_rated |-> Int2Rat(3)]>>}

\* Microgrids whose source produces a series as long as the load
MatchedMicrogrids ==
    UNION {[load : Series(LoadValues, n),
            project : [timestep : TimestepValues],
            nondispatchables : {<<p>> : p \in Series(ProdValues, n)},
            storage : Storages,
            dispatchable : Dispatchables,
            dieselgenerator : DieselGenerators] : n \in 1..MaxK}

\* Microgrids whose source produces a series of another length than the load
\* (one timestep, one storage, one generator)
MismatchedMicrogrids ==
    UNION {[load : Series(LoadValues, nm[1]),
            project : [timestep : {One}],
            nondispatchables : {<<p>> : p \in Series(ProdValues, nm[2])},
            storage : {s \in Storages : /\ s.SoC_ini = Rat(1, 2)
                                        /\ s.energy_max = Int2Rat(3)
                                        /\ s.loss = Zero},
            dispatchable : {d \in Dispatchables : d.power_rated = Rat(1, 2)},
            dieselgenerator : {<<[power_rated |-> Int2Rat(3)]>>}] :
           nm \in {x \in (1..MaxK) \X (1..MaxK) : x[1] # x[2]}}

Microgrids == MatchedMicrogrids \cup MismatchedMicrogrids

\* Values of the variables outside a run of operation
NoMicrogrid == [load |-> <<>>]

---------------------------------------------------------------------------
(* operation                                                               *)

\* What a run of operation is at: its position, the exception that ended it
\* if any, and its loop state (Esto, shed_duration, op_st)
Observed ==
    [pc |-> pc, exc |-> exc, Esto |-> Esto, shed_duration |-> shed_duration,
     op_st |-> op_st]

Init ==
    /\ mg \in Microgrids
    /\ recorder \in BOOLEAN
    /\ pc = "begin"
    /\ exc = ""
    /\ renew_potential = <<>>
    /\ Pnl_request = <<>>
    /\ Esto = Zero
    /\ shed_duration = Zero
    /\ op_st = OperationStats
    /\ np_fields = {}
    /\ k = 0
    /\ rec_log = <<>>
    /\ call = <<>>
    /\ ret = <<>>
    /\ history = <<>>
    /\ reference = <<>>

\* operation, up to the loop
Begin ==
    /\ pc = "begin"
    /\ IF SumRaises(mg.nondispatchables)
       THEN \* line 136 raises
            /\ exc' = "ValueError"
            /\ pc' = "raised"
            /\ UNCHANGED <<renew_potential, Pnl_request, Esto, op_st,
                           shed_duration, rec_log, k>>
       ELSE /\ renew_potential' = SumProductions(mg.nondispatchables)
            /\ IF ~ NpCompatible(mg.load, renew_potential')
               THEN \* line 139 raises
                    /\ exc' = "ValueError"
                    /\ pc' = "raised"
                    /\ UNCHANGED <<Pnl_request, Esto, op_st, shed_duration,
                                   rec_log, k>>
               ELSE /\ Pnl_request' = NpSub(mg.load, renew_potential')
                    /\ Esto' = Esto_ini
                    /\ op_st' = OperationStats
                    /\ shed_duration' = Zero
                    /\ rec_log' = RecInit([Pgen |-> K, Psto |-> K,
                                           Esto |-> K + 1,
                                           Pspill |-> K, Pshed |-> K])
                    /\ k' = 0
                    /\ pc' = "loop"
                    /\ UNCHANGED exc
    /\ UNCHANGED <<mg, recorder, np_fields, call, ret, reference>>
    /\ history' = Append(history, Observed')

\* one iteration of the loop `for k in range(K)`
\* (each local is bound once, \E x \in {e}, in the order the code assigns it)
Step ==
    /\ pc = "loop"
    /\ k < K
    /\ \E a \in {Args(Pnl_request[k + 1], Psto_cmax(Esto), Psto_dmax(Esto),
                      mg.dispatchable.power_rated)} :
       \E r \in {dispatch(a.Pnl_req, a.Psto_cmax, a.Psto_dmax, a.Pgen_max)} :
       \E np \in {NumpyResults(a.Pnl_req, a.Psto_cmax, a.Psto_dmax, a.Pgen_max)} :
       \E s1 \in {LoadStats(op_st, r.Pshed)} :
       \E s2 \in {IF RGt(r.Pgen, Zero)
                  THEN [s1 EXCEPT !.gen_hours = RAdd(@, dt)] ELSE s1} :
          /\ call' = <<a>>
          /\ ret' = <<r>>
          /\ rec_log' = Rec([Pgen |-> r.Pgen, Psto |-> r.Psto, Esto |-> Esto,
                             Pspill |-> r.Pspill, Pshed |-> r.Pshed])
          /\ shed_duration' = ShedDuration(r.Pshed)
          /\ IF RGt(r.Pgen, Zero) /\ mg.dieselgenerator = <<>>
             THEN \* mg.dieselgenerator raises AttributeError
                  /\ op_st' = s2
                  /\ np_fields' = np_fields \cup (NumpyFields(np) \cap {"shed_energy"})
                  /\ exc' = "AttributeError"
                  /\ pc' = "raised"
                  /\ k' = k
             ELSE /\ \E s3 \in {IF RGt(r.Pgen, Zero)
                                THEN [s2 EXCEPT !.gen_fuel =
                                          RAdd(@, RMul(fuel_rate(r.Pgen), dt))]
                                ELSE s2} :
                        op_st' = SpillStats(StorageStats(s3, r.Psto), r.Pspill)
                  /\ np_fields' = np_fields \cup NumpyFields(np)
                  /\ k' = k + 1
                  /\ UNCHANGED <<exc, pc>>
    /\ UNCHANGED <<mg, recorder, renew_potential, Pnl_request, Esto,
                   reference>>
    /\ history' = Append(history, Observed')

\* Lines 207-214, applied in order to the statistics st; a division that
\* raises leaves the field at Raised and skips the lines after it
ServedEnergy(st, load_energy) ==
    [st EXCEPT !.served_energy = RSub(load_energy, st.shed_energy)]
ShedRate(st, load_energy) ==
    [st EXCEPT !.shed_rate = TrueDiv(st.shed_energy, load_energy, TRUE)]
StorageCycles(st) ==
    [st EXCEPT !.storage_cycles =
        TrueDiv(st.storage_throughput, RMul(Int2Rat(2), mg.storage.energy_max),
                "storage_throughput" \in np_fields)]
SpilledRate(st) ==
    [st EXCEPT !.spilled_rate =
        TrueDiv(st.spilled_energy, st.renew_potential_energy,
                "spilled_energy" \in np_fields)]
RenewPotentialEnergy(st) ==
    [st EXCEPT !.renew_potential_energy = SeqSum(renew_potential)]
RenewEnergy(st) ==
    [st EXCEPT !.renew_energy = RSub(st.renew_potential_energy, st.spilled_energy)]
RenewRate(st) ==
    [st EXCEPT !.renew_rate = TrueDiv(st.renew_energy, st.served_energy, TRUE)]

\* operation, after the loop
Finish ==
    /\ pc = "loop"
    /\ k = K
    /\ rec_log' = Rec([Esto |-> Esto])
    /\ \E load_energy \in {RMul(SeqSum(mg.load), dt)} :
       \E s2 \in {ShedRate(ServedEnergy(op_st, load_energy), load_energy)} :
       \E s3 \in {StorageCycles(s2)} :
       \E s4 \in {SpilledRate(s3)} :
          IF s3.storage_cycles = Raised
          THEN op_st' = s2 /\ exc' = "ZeroDivisionError" /\ pc' = "raised"
          ELSE IF s4.spilled_rate = Raised
          THEN op_st' = s3 /\ exc' = "ZeroDivisionError" /\ pc' = "raised"
          ELSE /\ \E s6 \in {RenewEnergy(RenewPotentialEnergy(s4))} :
                     op_st' = RenewRate(s6)
               /\ exc' = ""
               /\ pc' = "returned"
    /\ UNCHANGED <<mg, recorder, renew_potential, Pnl_request, Esto,
                   shed_duration, np_fields, k, call, ret, reference>>
    /\ history' = Append(history, Observed')

Next == Begin \/ Step \/ Finish

Spec == Init /\ [][Next]_vars

---------------------------------------------------------------------------
(* operation(mg), then operation(mg, recorder) on the same mg              *)

InitPair == Init /\ ~ recorder

\* The run without recorder has ended: call operation again, with a recorder
Rerun ==
    /\ pc \in {"returned", "raised"}
    /\ ~ recorder
    /\ reference = <<>>
    /\ recorder' = TRUE
    /\ reference' = history
    /\ history' = <<>>
    /\ pc' = "begin"
    /\ exc' = ""
    /\ renew_potential' = <<>>
    /\ Pnl_request' = <<>>
    /\ Esto' = Zero
    /\ shed_duration' = Zero
    /\ op_st' = OperationStats
    /\ np_fields' = {}
    /\ k' = 0
    /\ rec_log' = <<>>
    /\ call' = <<>>
    /\ ret' = <<>>
    /\ UNCHANGED mg

NextPair == Begin \/ Step \/ Finish \/ Rerun

SpecPair == InitPair /\ [][NextPair]_vars

---------------------------------------------------------------------------
(* dispatch called on its own                                              *)

DispatchInputs ==
    [Pnl_req : {Int2Rat(n) : n \in -MaxPnl..MaxPnl},
     Psto_cmax : {Int2Rat(n) : n \in -MaxPsto..1},
     Psto_dmax : {Int2Rat(n) : n \in -1..MaxPsto},
     Pgen_max : {Int2Rat(n) : n \in -1..MaxPgen}]

InitDispatch ==
    /\ mg = NoMicrogrid
    /\ recorder = FALSE
    /\ pc = "dispatch"
    /\ exc = ""
    /\ renew_potential = <<>>
    /\ Pnl_request = <<>>
    /\ Esto = Zero
    /\ shed_duration = Zero
    /\ op_st = OperationStats
    /\ np_fields = {}
    /\ k = 0
    /\ rec_log = <<>>
    /\ call \in {<<a>> : a \in DispatchInputs}
    /\ ret = <<>>
    /\ history = <<>>
    /\ reference = <<>>

DispatchCall ==
    /\ pc = "dispatch"
    /\ ret' = <<dispatch(call[1].Pnl_req, call[1].Psto_cmax,
                         call[1].Psto_dmax, call[1].Pgen_max)>>
    /\ pc' = "dispatched"
    /\ UNCHANGED <<mg, recorder, exc, renew_potential, Pnl_request, Esto,
                   shed_duration, op_st, np_fields, k, rec_log, call,
                   history, reference>>

NextDispatch == DispatchCall

SpecDispatch == InitDispatch /\ [][NextDispatch]_vars

---------------------------------------------------------------------------
(* Properties of dispatch                                                  *)

\* The latest dispatch call has returned
Returned == call # <<>> /\ ret # <<>>
\* Its arguments satisfy Psto_cmax <= 0 <= Psto_dmax and Pgen_max >= 0
ValidBounds ==
    /\ RLe(call[1].Psto_cmax, Zero)
    /\ RLe(Zero, call[1].Psto_dmax)
    /\ RGe(call[1].Pgen_max, Zero)

Result(Pgen, Psto, Pspill, Pshed) ==
    [Pgen |-> Pgen, Psto |-> Psto, Pspill |-> Pspill, Pshed |-> Pshed]

\* C1, as stated: for every dispatch call with Psto_cmax <= 0 <= Psto_dmax and
\* Pgen_max >= 0, Pgen + Psto = Pnl_req - Pspill + Pshed.
C1_BalanceAsStated ==
    (Returned /\ ValidBounds) =>
        RAdd(ret[1].Pgen, ret[1].Psto) =
            RAdd(RSub(call[1].Pnl_req, ret[1].Pspill), ret[1].Pshed)

\* C1, amended: for every dispatch call with Psto_cmax <= 0 <= Psto_dmax and
\* Pgen_max >= 0, Pgen + Psto = Pnl_req + Pspill - Pshed (the supplied power
\* is the request less the shed load, plus the spilled surplus).
C1_PowerBalance ==
    (Returned /\ ValidBounds) =>
        RAdd(ret[1].Pgen, ret[1].Psto) =
            RSub(RAdd(call[1].Pnl_req, ret[1].Pspill), ret[1].Pshed)

\* a call in which storage, generator and shedding are all positive
C1_Witness ==
    /\ Returned /\ ValidBounds
    /\ RGt(ret[1].Psto, Zero) /\ RGt(ret[1].Pgen, Zero) /\ RGt(ret[1].Pshed, Zero)

\* The reference decision tree of C2, one implication per case
ReferenceTree(Pnl_req, cmax, dmax, Pgen_max, r) ==
    /\ (RGe(Pnl_req, Zero) /\ RLt(Pnl_req, dmax))
          => r = Result(Zero, Pnl_req, Zero, Zero)
    /\ (RGe(Pnl_req, dmax) /\ RLt(RSub(Pnl_req, dmax), Pgen_max))
          => r = Result(RSub(Pnl_req, dmax), dmax, Zero, Zero)
    /\ RGe(RSub(Pnl_req, dmax), Pgen_max)
          => r = Result(Pgen_max, dmax, Zero, RSub(RSub(Pnl_req, dmax), Pgen_max))
    /\ (RLe(cmax, Pnl_req) /\ RLt(Pnl_req, Zero))
          => r = Result(Zero, Pnl_req, Zero, Zero)
    /\ RLt(Pnl_req, cmax)
          => r = Result(Zero, cmax, RSub(cmax, Pnl_req), Zero)

\* The five scenarios with bounds (-5, 5, 10)
Scenario(req, Pgen, Psto, Pspill, Pshed) ==
    call[1] = Args(Int2Rat(req), Int2Rat(-5), Int2Rat(5), Int2Rat(10))
        => ret[1] = Result(Int2Rat(Pgen), Int2Rat(Psto), Int2Rat(Pspill),
                           Int2Rat(Pshed))

\* C2: for every input with Psto_cmax <= 0 <= Psto_dmax and Pgen_max >= 0,
\* dispatch returns what the reference decision tree gives; with bounds
\* (-5, 5, 10) the requests 3, 12, 20, -3, -8 give (0,3,0,0), (7,5,0,0),
\* (10,5,0,5), (0,-3,0,0), (0,-5,3,0).
C2_ReferenceTree ==
    Returned =>
        /\ ValidBounds =>
              ReferenceTree(call[1].Pnl_req, call[1].Psto_cmax,
                            call[1].Psto_dmax, call[1].Pgen_max, ret[1])
        /\ Scenario(3, 0, 3, 0, 0)
        /\ Scenario(12, 7, 5, 0, 0)
        /\ Scenario(20, 10, 5, 0, 5)
        /\ Scenario(-3, 0, -3, 0, 0)
        /\ Scenario(-8, 0, -5, 3, 0)

\* scenario B has been dispatched
C2_Witness ==
    /\ Returned
    /\ call[1] = Args(Int2Rat(12), Int2Rat(-5), Int2Rat(5), Int2Rat(10))
    /\ ret[1].Pgen = Int2Rat(7)

\* C3: with valid bounds, Pshed > 0 implies Psto = Psto_dmax, Pgen = Pgen_max,
\* Pspill = 0 and Pshed = Pnl_req - Psto_dmax - Pgen_max; Pgen > 0 implies
\* Psto = Psto_dmax; and whenever Pnl_req >= Psto_dmax and
\* Pnl_req - Psto_dmax >= Pgen_max the result is Pgen = Pgen_max,
\* Psto = Psto_dmax, Pspill = 0, Pshed = Pnl_req - Psto_dmax - Pgen_max >= 0.
C3_SheddingLastResort ==
    (Returned /\ ValidBounds) =>
        LET a == call[1]
            r == ret[1]
            residual == RSub(RSub(a.Pnl_req, a.Psto_dmax), a.Pgen_max)
        IN /\ RGt(r.Pshed, Zero) =>
                 /\ r.Psto = a.Psto_dmax
                 /\ r.Pgen = a.Pgen_max
                 /\ r.Pspill = Zero
                 /\ r.Pshed = residual
           /\ RGt(r.Pgen, Zero) => r.Psto = a.Psto_dmax
           /\ (RGe(a.Pnl_req, a.Psto_dmax)
                 /\ RGe(RSub(a.Pnl_req, a.Psto_dmax), a.Pgen_max)) =>
                 /\ r = Result(a.Pgen_max, a.Psto_dmax, Zero, residual)
                 /\ RGe(r.Pshed, Zero)

\* a call that sheds load although storage and generator both supply power
C3_Witness ==
    /\ Returned /\ ValidBounds
    /\ RGt(ret[1].Pshed, Zero)
    /\ RGt(call[1].Psto_dmax, Zero) /\ RGt(call[1].Pgen_max, Zero)

\* C4: for every call with Pnl_req < 0 and Psto_cmax <= 0, Pgen = 0 and
\* Pshed = 0, and Pspill > 0 only if Psto = Psto_cmax; for all
\* Pnl_req < Psto_cmax < 0 the result is Pspill = Psto_cmax - Pnl_req > 0,
\* Psto = Psto_cmax, Pgen = 0, Pshed = 0.
C4_SurplusHandling ==
    Returned =>
        LET a == call[1]
            r == ret[1]
        IN /\ (RLt(a.Pnl_req, Zero) /\ RLe(a.Psto_cmax, Zero)) =>
                 /\ r.Pgen = Zero
                 /\ r.Pshed = Zero
                 /\ RGt(r.Pspill, Zero) => r.Psto = a.Psto_cmax
           /\ (RLt(a.Pnl_req, a.Psto_cmax) /\ RLt(a.Psto_cmax, Zero)) =>
                 /\ r = Result(Zero, a.Psto_cmax,
                               RSub(a.Psto_cmax, a.Pnl_req), Zero)
                 /\ RGt(r.Pspill, Zero)

\* a surplus larger than the charge limit has been dispatched
C4_Witness ==
    /\ Returned
    /\ RLt(call[1].Pnl_req, call[1].Psto_cmax) /\ RLt(call[1].Psto_cmax, Zero)
    /\ RGt(ret[1].Pspill, Zero)

---------------------------------------------------------------------------
(* Properties of operation                                                 *)

\* The storage power bounds as C5 states them, from the energy E
C5_dmax(E) ==
    RMin(RMul(mg.storage.discharge_rate_max, mg.storage.energy_rated),
         RQuot(RSub(E, mg.storage.energy_min),
               RMul(RAdd(One, mg.storage.loss), mg.project.timestep)))
C5_cmax(E) ==
    RMax(RNeg(RMul(mg.storage.charge_rate_max, mg.storage.energy_rated)),
         RNeg(RQuot(RSub(mg.storage.energy_max, E),
                    RMul(RSub(One, mg.storage.loss), mg.project.timestep))))

\* C5: at every step of operation the bounds passed to dispatch satisfy
\* Psto_cmax <= 0 <= Psto_dmax, with Psto_dmax = min(rated discharge power,
\* (Esto - energy_min)/((1+loss)*dt)) and Psto_cmax = max(-rated charge power,
\* -(energy_max - Esto)/((1-loss)*dt)), Esto starting at SoC_ini * energy_rated.
C5_StorageBounds ==
    /\ (pc = "loop" /\ k = 0) =>
          Esto = RMul(mg.storage.SoC_ini, mg.storage.energy_rated)
    /\ Returned =>
          /\ RLe(call[1].Psto_cmax, Zero)
          /\ RLe(Zero, call[1].Psto_dmax)
          /\ call[1].Psto_dmax = C5_dmax(Esto)
          /\ call[1].Psto_cmax = C5_cmax(Esto)

\* a second step whose discharge bound is set by the energy left above
\* energy_min and whose charge bound is set by the rated charge power
C5_Witness ==
    /\ Returned /\ k >= 2
    /\ RGt(call[1].Psto_dmax, Zero)
    /\ RLt(call[1].Psto_dmax, Psto_pmax)
    /\ call[1].Psto_cmax = Psto_pmin
    /\ RLt(Psto_pmin, Zero)

\* C6: the returned spilled_rate is the spilled energy divided by the
\* finalized renewable potential energy: spilled_rate * renew_potential_energy
\* = spilled_energy whenever renew_potential_energy is non-zero.
C6_SpilledRate ==
    (pc = "returned" /\ op_st.renew_potential_energy # Zero) =>
        /\ IsFinite(op_st.spilled_rate)
        /\ RMul(op_st.spilled_rate, op_st.renew_potential_energy)
              = op_st.spilled_energy

\* C7: the returned renew_potential_energy is the sum over all steps of
\* renew_potential[k] * dt, for every dt, and renew_energy is
\* renew_potential_energy - spilled_energy.
C7_RenewPotentialEnergy ==
    pc = "returned" =>
        /\ op_st.renew_potential_energy = RMul(SeqSum(renew_potential), dt)
        /\ op_st.renew_energy =
              RSub(op_st.renew_potential_energy, op_st.spilled_energy)

\* C8: the returned storage_cycles is >= 0 and equals storage_throughput /
\* (2 * rated energy capacity), also when energy_max differs from energy_rated.
C8_StorageCycles ==
    pc = "returned" =>
        /\ RGe(op_st.storage_cycles, Zero)
        /\ op_st.storage_cycles =
              RQuot(op_st.storage_throughput,
                    RMul(Int2Rat(2), mg.storage.energy_rated))

\* A rate within [0, 1] (inf and nan are not)
InUnitInterval(x) == IsFinite(x) /\ RLe(Zero, x) /\ RLe(x, One)

\* C9: after any run with non-negative series and valid bounds, each of
\* shed_rate, spilled_rate and renew_rate whose denominator (load energy,
\* renewable potential energy, served energy) is non-zero lies in [0, 1].
C9_RatesInUnitInterval ==
    pc = "returned" =>
        /\ SeqSum(mg.load) # Zero => InUnitInterval(op_st.shed_rate)
        /\ SeqSum(renew_potential) # Zero => InUnitInterval(op_st.spilled_rate)
        /\ op_st.served_energy # Zero => InUnitInterval(op_st.renew_rate)

\* C10: every field of the returned OperationStats is non-negative (a nan
\* field is not counted against the claim).
C10_NonNegativeStats ==
    pc = "returned" => \A f \in DOMAIN op_st : op_st[f][1] >= 0

---------------------------------------------------------------------------
(* Properties of the loop                                                  *)

\* A transition that is one iteration of the loop
LoopStep == pc = "loop" /\ k < K /\ ret' # <<>>
\* The loop has ended and the finalization has run (to its end, or to the
\* exception that ended it)
LoopEnded == pc \in {"returned", "raised"} /\ k = K /\ exc # "ValueError"

MonotoneFields ==
    {"shed_energy", "spilled_energy", "shed_max", "shed_hours",
     "shed_duration_max", "gen_hours", "storage_throughput", "spilled_max"}

\* C11: at every step of operation shed_energy, spilled_energy, shed_max,
\* shed_hours, shed_duration_max, gen_hours, storage_throughput and spilled_max
\* after the step are >= their values before it, and the step's Pshed and
\* Pspill are >= 0.
C11_MonotoneAccumulators ==
    [][LoopStep =>
          /\ \A f \in MonotoneFields : RLe(op_st[f], op_st'[f])
          /\ RGe(ret'[1].Pshed, Zero)
          /\ RGe(ret'[1].Pspill, Zero)]_vars

\* a run that has both shed load and spilled power, two steps or more done
C11_Witness ==
    /\ pc = "loop" /\ k >= 2
    /\ RGt(op_st.shed_energy, Zero)
    /\ RGt(op_st.spilled_energy, Zero)

\* Number of iterations that have reached the recording of lines 172-173
StepsRecorded == IF pc = "raised" /\ exc = "AttributeError" THEN k + 1 ELSE k

\* The one call of recorder.init the protocol allows
InitCall ==
    <<"init", [Pgen |-> K, Psto |-> K, Esto |-> K + 1, Pspill |-> K, Pshed |-> K]>>

\* Number of samples rec has been given for one field
Samples(f) ==
    Cardinality({i \in 2..Len(rec_log) : f \in DOMAIN rec_log[i][2]})

\* The calls made so far: init first and only once, then rec calls; each
\* power has one sample per step done, Esto one more once the loop has ended
C12_Shape ==
    recorder =>
        IF pc = "begin" \/ exc = "ValueError" THEN rec_log = <<>>
        ELSE /\ Len(rec_log) >= 1
             /\ rec_log[1] = InitCall
             /\ \A i \in 2..Len(rec_log) : rec_log[i][1] = "rec"
             /\ \A f \in {"Pgen", "Psto", "Pspill", "Pshed"} :
                    Samples(f) = StepsRecorded
             /\ Samples("Esto") = StepsRecorded + (IF LoopEnded THEN 1 ELSE 0)
             /\ LoopEnded => Samples("Esto") = K + 1 /\ Samples("Pgen") = K

\* What each part of operation adds to the calls
C12_Calls ==
    recorder =>
        /\ (pc = "begin" /\ pc' = "loop") => rec_log' = <<InitCall>>
        /\ LoopStep =>
              rec_log' = Append(rec_log,
                  <<"rec", [Pgen |-> ret'[1].Pgen, Psto |-> ret'[1].Psto,
                            Esto |-> Esto, Pspill |-> ret'[1].Pspill,
                            Pshed |-> ret'[1].Pshed]>>)
        /\ (pc = "loop" /\ k = K /\ pc' # "loop") =>
              rec_log' = Append(rec_log, <<"rec", [Esto |-> Esto]>>)

\* C12: with a recorder attached, operation calls recorder.init exactly once
\* before the first step with lengths K for Pgen, Psto, Pspill, Pshed and K+1
\* for Esto; then one rec per step, in step order, with that step's Pgen, Psto,
\* Pspill, Pshed and the Esto at the start of the step; then one rec after the
\* loop with the terminal Esto only.  Esto gets K+1 samples, each power K, and
\* no rec precedes init.
C12_RecorderProtocol == []C12_Shape /\ [][C12_Calls]_vars

\* a recorded run of three steps that has returned
C12_Witness ==
    /\ recorder /\ pc = "returned" /\ K = 3
    /\ Len(rec_log) = 5
    /\ rec_log[5] = <<"rec", [Esto |-> Esto]>>

\* Pshed > 0 in the i-th recorded step
Shedding(i) == RGt(rec_log[i + 1][2].Pshed, Zero)

\* Steps i..j are all shedding steps
SheddingRun(i, j) == \A n \in i..j : Shedding(n)

\* Number of shedding steps among the recorded ones
SheddingSteps == Cardinality({i \in 1..StepsRecorded : Shedding(i)})

\* Length of the longest run of consecutive shedding steps
LongestSheddingRun ==
    CHOOSE n \in 0..StepsRecorded :
          /\ n = 0 \/ \E i \in 1..StepsRecorded :
                         i + n - 1 <= StepsRecorded /\ SheddingRun(i, i + n - 1)
          /\ \A m \in (n + 1)..StepsRecorded :
                 ~ \E i \in 1..StepsRecorded :
                       i + m - 1 <= StepsRecorded /\ SheddingRun(i, i + m - 1)

\* Length of the run of shedding steps that ends at the latest step
CurrentSheddingRun ==
    CHOOSE n \in 0..StepsRecorded :
        /\ SheddingRun(StepsRecorded - n + 1, StepsRecorded)
        /\ n < StepsRecorded => ~ Shedding(StepsRecorded - n)

\* C18: shed_duration_max is dt times the longest run of consecutive steps
\* with Pshed > 0 and shed_hours is dt times the number of such steps; the
\* running counter restarts at a step with Pshed = 0; hence
\* shed_duration_max <= shed_hours <= K*dt.  (The steps' Pshed are read from
\* the recorder, so the runs checked are those with a recorder attached.)
C18_ShedDurations ==
    (recorder /\ pc \in {"loop", "returned", "raised"} /\ exc # "ValueError") =>
        /\ op_st.shed_hours = RMul(dt, Int2Rat(SheddingSteps))
        /\ op_st.shed_duration_max = RMul(dt, Int2Rat(LongestSheddingRun))
        /\ shed_duration = RMul(dt, Int2Rat(CurrentSheddingRun))
        /\ RLe(op_st.shed_duration_max, op_st.shed_hours)
        /\ RLe(op_st.shed_hours, RMul(Int2Rat(K), dt))

\* shedding, then a step without, then shedding again
C18_Witness ==
    /\ recorder /\ pc = "loop" /\ k = 3
    /\ Shedding(1) /\ ~ Shedding(2) /\ Shedding(3)
    /\ op_st.shed_duration_max = dt
    /\ op_st.shed_hours = RMul(dt, Int2Rat(2))

\* C17: Esto is carried state advanced once per step: after a step whose
\* Psto is not zero, the Esto the next step starts with differs from the Esto
\* this step started with.
C17_EstoAdvances ==
    [][(LoopStep /\ ret'[1].Psto # Zero) => Esto' # Esto]_vars

\* C19: on every step with Pgen > 0, gen_hours grows by dt and gen_fuel by
\* dt * (fuel_intercept * Pgen_rated + fuel_slope * Pgen), Pgen_rated being the
\* rated power of the dispatchable generator given to dispatch as Pgen_max; on
\* a step with Pgen = 0 both are unchanged; so gen_hours is dt times the
\* number of steps with Pgen > 0, at most K*dt.
C19_GeneratorStats ==
    [][LoopStep =>
          IF RGt(ret'[1].Pgen, Zero)
          THEN /\ pc' = "loop"
               /\ op_st'.gen_hours = RAdd(op_st.gen_hours, dt)
               /\ op_st'.gen_fuel =
                      RAdd(op_st.gen_fuel,
                           RMul(dt, RAdd(RMul(mg.dispatchable.fuel_intercept,
                                              call'[1].Pgen_max),
                                         RMul(mg.dispatchable.fuel_slope,
                                              ret'[1].Pgen))))
          ELSE /\ op_st'.gen_hours = op_st.gen_hours
               /\ op_st'.gen_fuel = op_st.gen_fuel]_vars

AllZero(st) == \A f \in DOMAIN st : st[f] = Zero

\* Energies the three derived ratios divide by
LoadEnergy == RMul(SeqSum(mg.load), dt)
PotentialEnergy == RMul(SeqSum(renew_potential), dt)

\* C14: a derived ratio whose denominator is zero at finalization (load
\* energy for shed_rate, renewable potential energy for spilled_rate, served
\* energy for renew_rate) does not abort the run: operation returns, with that
\* ratio non-finite.
C14_DegenerateRatios ==
    LoopEnded =>
        /\ LoadEnergy = Zero =>
               pc = "returned" /\ ~ IsFinite(op_st.shed_rate)
        /\ PotentialEnergy = Zero =>
               pc = "returned" /\ ~ IsFinite(op_st.spilled_rate)
        /\ op_st.served_energy = Zero =>
               pc = "returned" /\ ~ IsFinite(op_st.renew_rate)

\* The load equals the renewable potential at every step
ZeroNetLoad == pc # "begin" /\ Len(Pnl_request) = K
                            /\ \A i \in 1..K : Pnl_request[i] = Zero

\* C15: when the load equals the renewable potential at every step, every
\* step has Psto = Pgen = Pspill = Pshed = 0 and every statistic of the
\* returned OperationStats is zero.
C15_ZeroNetLoad ==
    ZeroNetLoad =>
        /\ ret # <<>> => AllZero(ret[1])
        /\ LoopEnded => pc = "returned" /\ AllZero(op_st)

\* The envelope of C20 without its statement on the sign of Psto
Envelope ==
    /\ RLe(Zero, ret[1].Pgen) /\ RLe(ret[1].Pgen, call[1].Pgen_max)
    /\ RLe(call[1].Psto_cmax, ret[1].Psto)
    /\ RLe(ret[1].Psto, call[1].Psto_dmax)
    /\ RGe(ret[1].Pspill, Zero) /\ RGe(ret[1].Pshed, Zero)
    /\ ~ (RGt(ret[1].Pspill, Zero) /\ RGt(ret[1].Pshed, Zero))

\* C20, as stated: for every dispatch call with Psto_cmax <= 0 <= Psto_dmax
\* and Pgen_max >= 0: 0 <= Pgen <= Pgen_max, Psto_cmax <= Psto <= Psto_dmax,
\* Pspill >= 0, Pshed >= 0, Psto >= 0 when Pnl_req >= 0, Psto < 0 when
\* Pnl_req < 0, and Pspill and Pshed never both positive.
C20_EnvelopeAsStated ==
    (Returned /\ ValidBounds) =>
        /\ Envelope
        /\ RGe(call[1].Pnl_req, Zero) => RGe(ret[1].Psto, Zero)
        /\ RLt(call[1].Pnl_req, Zero) => RLt(ret[1].Psto, Zero)

\* C20, amended: the same envelope, with Psto <= 0 when Pnl_req < 0 (Psto is
\* 0 when the storage cannot charge, Psto_cmax = 0).
C20_Envelope ==
    (Returned /\ ValidBounds) =>
        /\ Envelope
        /\ RGe(call[1].Pnl_req, Zero) => RGe(ret[1].Psto, Zero)
        /\ RLt(call[1].Pnl_req, Zero) => RLe(ret[1].Psto, Zero)

\* an excess met by a storage that cannot charge: all of it is spilled
C20_Witness ==
    /\ Returned /\ ValidBounds
    /\ RLt(call[1].Pnl_req, Zero) /\ call[1].Psto_cmax = Zero
    /\ ret[1].Psto = Zero /\ ret[1].Pspill = RNeg(call[1].Pnl_req)

\* Some source's production series is not as long as the load series
ShapeMismatch ==
    \E i \in 1..Len(mg.nondispatchables) : Len(mg.nondispatchables[i]) # K

\* C16: if the length of a source's production series differs from the length
\* K of the load series, operation ends in an error before any dispatch step
\* (no recorder call, no statistics); it never goes on with a truncated, padded
\* or broadcast series.
C16_ShapeMismatch ==
    ShapeMismatch =>
        /\ pc \in {"begin", "raised"}
        /\ pc = "raised" => exc = "ValueError"
        /\ rec_log = <<>> /\ call = <<>> /\ ret = <<>>
        /\ Pnl_request = <<>>

---------------------------------------------------------------------------
(* Properties of two runs on the same Microgrid                            *)

\* C13: recording is a pure observation: for the same configuration, the run
\* with a recorder goes through the same sequence of (Esto, shed_duration,
\* OperationStats) states as the run without, ends the same way and returns
\* the same OperationStats.
C13_PureObservation ==
    (recorder /\ reference # <<>>) =>
        /\ Len(history) <= Len(reference)
        /\ \A i \in 1..Len(history) : history[i] = reference[i]
        /\ pc \in {"returned", "raised"} =>
               /\ Len(history) = Len(reference)
               /\ pc = reference[Len(reference)].pc
               /\ op_st = reference[Len(reference)].op_st

\* the second run, recorded over three steps, has returned
C13_Witness ==
    /\ recorder /\ reference # <<>>
    /\ pc = "returned" /\ K = 3
    /\ Len(rec_log) = 5 /\ Len(history) = 5
    /\ RGt(op_st.shed_energy, Zero)

=============================================================================
